---------------------------- MODULE Spec2Model ----------------------------
(***************************************************************************)
(* A model of the two numerical cores of the wgpu viewer:                  *)
(*   - the pipe mesh builder  (src/src/model_pipe.rs)                      *)
(*   - the orbit camera and its controller (src/src/camera.rs)             *)
(*                                                                         *)
(* f32 values are modelled in fixed point.  A direction, a quaternion      *)
(* component, an angle (radians) or a trigonometric value x is the integer *)
(* x * Unit; a length or a coordinate x is the integer x * Pos.  Every     *)
(* product is rounded to the nearest representable value, as an f32        *)
(* product is.  NaN is a value of its own: it is absorbing for the         *)
(* arithmetic and makes every comparison false, as in IEEE-754.            *)
(***************************************************************************)
EXTENDS Integers, Sequences, FiniteSets, TLC

(***************************************************************************)
(* f32 arithmetic                                                          *)
(***************************************************************************)
\* resolution of directions, quaternions, angles: 1 / Unit
Unit == 10000
\* resolution of coordinates and lengths: 1 / Pos
Pos == 100
\* the f32 NaN
NaN == -1000000000

IsNaN(a) == a = NaN

FNeg(a) == IF IsNaN(a) THEN NaN ELSE 0 - a

FAdd(a, b) == IF IsNaN(a) \/ IsNaN(b) THEN NaN ELSE a + b

FSub(a, b) == IF IsNaN(a) \/ IsNaN(b) THEN NaN ELSE a - b

FAbs(a) == IF IsNaN(a) THEN NaN ELSE IF a < 0 THEN 0 - a ELSE a

\* a / b of two integers, b > 0, rounded to the nearest integer
RDiv(a, b) == IF a >= 0 THEN (a + b \div 2) \div b
              ELSE 0 - (((0 - a) + b \div 2) \div b)

\* the product of two values, the result at resolution 1/s finer than the
\* operands' product: (a / s1) * (b / s2) at the resolution of a when s = s2
FMul(a, b, s) == IF IsNaN(a) \/ IsNaN(b) THEN NaN ELSE RDiv(a * b, s)

\* the quotient a / b kept at the resolution of a, b at resolution 1/s;
\* 0.0 / 0.0 is NaN (the only division by zero the modelled code performs)
FDiv(a, b, s) == IF IsNaN(a) \/ IsNaN(b) \/ b = 0 THEN NaN
                 ELSE IF b > 0 THEN RDiv(a * s, b) ELSE RDiv((0 - a) * s, 0 - b)

\* comparisons: false as soon as an operand is NaN
FLt(a, b) == ~IsNaN(a) /\ ~IsNaN(b) /\ a < b

FGt(a, b) == ~IsNaN(a) /\ ~IsNaN(b) /\ a > b

FGe(a, b) == ~IsNaN(a) /\ ~IsNaN(b) /\ a >= b

\* f32::max and f32::min: when one operand is NaN the other is returned
FMax(a, b) == IF IsNaN(a) THEN b ELSE IF IsNaN(b) THEN a ELSE IF a > b THEN a ELSE b

FMin(a, b) == IF IsNaN(a) THEN b ELSE IF IsNaN(b) THEN a ELSE IF a < b THEN a ELSE b

\* f32::clamp(lo, hi): NaN stays NaN
FClamp(a, lo, hi) == IF IsNaN(a) THEN NaN ELSE IF a < lo THEN lo ELSE IF a > hi THEN hi ELSE a

RECURSIVE SqrtIter(_, _)
SqrtIter(n, x) == LET y == (x + n \div x) \div 2
                  IN  IF y >= x THEN x ELSE SqrtIter(n, y)

\* the integer nearest to the square root of n >= 0
ISqrt(n) == IF n = 0 THEN 0
            ELSE LET r == SqrtIter(n, IF n > 40000 THEN n \div 200 ELSE n)
                 IN  IF n - r * r > r THEN r + 1 ELSE r

(***************************************************************************)
(* sin and cos of an angle in [-2 pi, 2 pi], by reduction to [0, pi/4]     *)
(* and the Taylor polynomial there (error below the resolution)            *)
(***************************************************************************)
\* std::f32::consts::PI at resolution 1 / Unit
Pi == 31416

SinT(x) == LET x2 == RDiv(x * x, Unit)
               x3 == RDiv(x * x2, Unit)
               x5 == RDiv(x3 * x2, Unit)
               x7 == RDiv(x5 * x2, Unit)
           IN  RDiv(5040 * x - 840 * x3 + 42 * x5 - x7, 5040)

CosT(x) == LET x2 == RDiv(x * x, Unit)
               x4 == RDiv(x2 * x2, Unit)
               x6 == RDiv(x4 * x2, Unit)
           IN  RDiv(720 * Unit - 360 * x2 + 30 * x4 - x6, 720)

RECURSIVE Sin(_)
Sin(x) == IF IsNaN(x) THEN NaN
          ELSE IF x < 0 THEN 0 - Sin(0 - x)
          ELSE IF x > Pi THEN 0 - Sin(x - Pi)
          ELSE IF 2 * x > Pi THEN Sin(Pi - x)
          ELSE IF 4 * x > Pi THEN CosT(RDiv(Pi, 2) - x)
          ELSE SinT(x)

RECURSIVE Cos(_)
Cos(x) == IF IsNaN(x) THEN NaN
          ELSE IF x < 0 THEN Cos(0 - x)
          ELSE IF x > Pi THEN 0 - Cos(x - Pi)
          ELSE IF 2 * x > Pi THEN 0 - Cos(Pi - x)
          ELSE IF 4 * x > Pi THEN SinT(RDiv(Pi, 2) - x)
          ELSE CosT(x)

(***************************************************************************)
(* cgmath::Vector3 / Point3: a triple of f32                               *)
(***************************************************************************)
VecNaN(v) == IsNaN(v[1]) \/ IsNaN(v[2]) \/ IsNaN(v[3])

VAdd(a, b) == <<FAdd(a[1], b[1]), FAdd(a[2], b[2]), FAdd(a[3], b[3])>>

VSub(a, b) == <<FSub(a[1], b[1]), FSub(a[2], b[2]), FSub(a[3], b[3])>>

VNeg(a) == <<FNeg(a[1]), FNeg(a[2]), FNeg(a[3])>>

\* v * k, k at resolution 1/s
VScale(v, k, s) == <<FMul(v[1], k, s), FMul(v[2], k, s), FMul(v[3], k, s)>>

\* a . b, one operand at resolution 1/s: the result has the resolution of the other
Dot(a, b, s) == IF VecNaN(a) \/ VecNaN(b) THEN NaN
                ELSE RDiv(a[1] * b[1] + a[2] * b[2] + a[3] * b[3], s)

\* a x b, one operand at resolution 1/s: the result has the resolution of the other
Cross(a, b, s) == IF VecNaN(a) \/ VecNaN(b) THEN <<NaN, NaN, NaN>>
                  ELSE <<RDiv(a[2] * b[3] - a[3] * b[2], s),
                         RDiv(a[3] * b[1] - a[1] * b[3], s),
                         RDiv(a[1] * b[2] - a[2] * b[1], s)>>

\* |v|, at the resolution of v
Magnitude(v) == IF VecNaN(v) THEN NaN
                ELSE ISqrt(v[1] * v[1] + v[2] * v[2] + v[3] * v[3])

\* v / |v| at resolution 1 / Unit; the zero vector gives (NaN, NaN, NaN).
\* The quotient is taken twice so that the result is a unit vector to within
\* 1 / Unit whatever the resolution of v, as an f32 quotient is to within 1e-7.
DivideBy(v, m) == <<FDiv(v[1], m, Unit), FDiv(v[2], m, Unit), FDiv(v[3], m, Unit)>>

Quotient(v) == DivideBy(v, Magnitude(v))

Normalize(v) == Quotient(Quotient(v))

UnitX == <<Unit, 0, 0>>

UnitY == <<0, Unit, 0>>

UnitZ == <<0, 0, Unit>>

Origin == <<0, 0, 0>>


(***************************************************************************)
(* cgmath::Quaternion <<s, x, y, z>> and cgmath::Matrix3, as camera.rs     *)
(* uses them                                                               *)
(***************************************************************************)
Quat(s, v) == <<s, v[1], v[2], v[3]>>

QVec(q) == <<q[2], q[3], q[4]>>

QuatNaN(q) == IsNaN(q[1]) \/ IsNaN(q[2]) \/ IsNaN(q[3]) \/ IsNaN(q[4])

\* a * b, the Hamilton product (camera.rs line 456)
QMul(a, b) ==
    IF QuatNaN(a) \/ QuatNaN(b) THEN <<NaN, NaN, NaN, NaN>>
    ELSE <<RDiv(a[1] * b[1] - a[2] * b[2] - a[3] * b[3] - a[4] * b[4], Unit),
           RDiv(a[1] * b[2] + a[2] * b[1] + a[3] * b[4] - a[4] * b[3], Unit),
           RDiv(a[1] * b[3] + a[3] * b[1] + a[4] * b[2] - a[2] * b[4], Unit),
           RDiv(a[1] * b[4] + a[4] * b[1] + a[2] * b[3] - a[3] * b[2], Unit)>>

\* |q|
QMagnitude(q) == IF QuatNaN(q) THEN NaN
                 ELSE ISqrt(q[1] * q[1] + q[2] * q[2] + q[3] * q[3] + q[4] * q[4])

\* the quaternion left as it is
QNormalize_Missing(q) == q

\* q.normalize() (camera.rs line 459): q / |q|
QNormalize(q) == LET m == QMagnitude(q)
                 IN  <<FDiv(q[1], m, Unit), FDiv(q[2], m, Unit),
                       FDiv(q[3], m, Unit), FDiv(q[4], m, Unit)>>

\* Quaternion::from_axis_angle(axis, Rad(angle)) (lines 445 and 452):
\* (cos(angle/2), axis * sin(angle/2))
from_axis_angle(axis, angle) ==
    LET half == FDiv(angle, 2, 1)
    IN  Quat(Cos(half), VScale(axis, Sin(half), Unit))

\* q.rotate_vector(v) (lines 111, 116, 170): v + 2 * q.v x (q.v x v + q.s * v);
\* the result has the resolution of v
rotate_vector(q, v) ==
    LET tmp == VAdd(Cross(QVec(q), v, Unit), VScale(v, q[1], Unit))
    IN  VAdd(VScale(Cross(QVec(q), tmp, Unit), 2, 1), v)

\* the rotation matrix Quaternion::look_at(dir, up) converts (line 61): its
\* rows are side, up and dir
LookAtUp(dir, side) == <<side, Normalize(Cross(dir, side, Unit)), dir>>

LookAtSide(dir, up) == LookAtUp(dir, Normalize(Cross(up, dir, Unit)))

LookAtRows(dir, up) == LookAtSide(Normalize(dir), up)

\* Quaternion::from(Matrix3), m[c][r] being entry r of column c, that is
\* entry c of row r
MatrixToQuat(rows) ==
    LET m(c, r) == rows[r + 1][c + 1]
        trace   == FAdd(m(0, 0), FAdd(m(1, 1), m(2, 2)))
        half    == Unit \div 2
        root(a) == IF IsNaN(a) \/ a < 0 THEN NaN ELSE ISqrt(a * Unit)
    IN  IF VecNaN(rows[1]) \/ VecNaN(rows[2]) \/ VecNaN(rows[3])
        THEN <<NaN, NaN, NaN, NaN>>
        ELSE IF trace >= 0 THEN
            LET s1 == root(Unit + trace)
                s2 == FDiv(half, s1, Unit)
            IN  <<FMul(half, s1, Unit),
                  FMul(m(1, 2) - m(2, 1), s2, Unit),
                  FMul(m(2, 0) - m(0, 2), s2, Unit),
                  FMul(m(0, 1) - m(1, 0), s2, Unit)>>
        ELSE IF m(0, 0) > m(1, 1) /\ m(0, 0) > m(2, 2) THEN
            LET s1 == root((m(0, 0) - m(1, 1) - m(2, 2)) + Unit)
                s2 == FDiv(half, s1, Unit)
            IN  <<FMul(m(1, 2) - m(2, 1), s2, Unit),
                  FMul(half, s1, Unit),
                  FMul(m(1, 0) + m(0, 1), s2, Unit),
                  FMul(m(0, 2) + m(2, 0), s2, Unit)>>
        ELSE IF m(1, 1) > m(2, 2) THEN
            LET s1 == root((m(1, 1) - m(0, 0) - m(2, 2)) + Unit)
                s2 == FDiv(half, s1, Unit)
            IN  <<FMul(m(2, 0) - m(0, 2), s2, Unit),
                  FMul(m(1, 0) + m(0, 1), s2, Unit),
                  FMul(half, s1, Unit),
                  FMul(m(2, 1) + m(1, 2), s2, Unit)>>
        ELSE
            LET s1 == root((m(2, 2) - m(0, 0) - m(1, 1)) + Unit)
                s2 == FDiv(half, s1, Unit)
            IN  <<FMul(m(0, 1) - m(1, 0), s2, Unit),
                  FMul(m(0, 2) + m(2, 0), s2, Unit),
                  FMul(m(2, 1) + m(1, 2), s2, Unit),
                  FMul(half, s1, Unit)>>

\* Quaternion::look_at(dir, up)
look_at(dir, up) == MatrixToQuat(LookAtRows(dir, up))


(***************************************************************************)
(* camera.rs: Camera                                                       *)
(***************************************************************************)
\* lines 16-17
MIN_ZOOM_DISTANCE == Pos \div 2

MAX_ZOOM_DISTANCE == 100 * Pos

\* 0.98 and 0.99, the alignments of lines 123 and of lines 65 and 171
PoleAlignment == (98 * Unit) \div 100

NewPoleAlignment == (99 * Unit) \div 100

\* the right vector taken as computed, without the sign correction
TurntableRight_NoFlip(forward, world_up, last_right) ==
    LET alignment == FAbs(Dot(forward, world_up, Unit))
    IN  IF FGt(alignment, PoleAlignment) THEN last_right
        ELSE Normalize(Cross(forward, world_up, Unit))

\* lines 133-137: the computed right vector, negated when it points against
\* last_right
SignCorrected(computed_right, last_right) ==
    IF FLt(Dot(computed_right, last_right, Unit), 0)
    THEN VNeg(computed_right)
    ELSE computed_right

\* lines 121-138: the right vector update_position accepts
TurntableRight(forward, world_up, last_right) ==
    LET alignment == FAbs(Dot(forward, world_up, Unit))
    IN  IF FGt(alignment, PoleAlignment) THEN last_right
        ELSE SignCorrected(Normalize(Cross(forward, world_up, Unit)), last_right)

\* line 116: the forward vector of the orientation
Forward(cam) == VNeg(rotate_vector(cam.orientation, UnitY))

\* lines 108-113 and 141-151: the position placed and the frame stored, up
\* being right x forward
Framed(cam, forward, right, up) ==
    [cam EXCEPT !.position = VAdd(cam.target,
                                  rotate_vector(cam.orientation, <<0, FNeg(cam.distance), 0>>)),
                !.last_right = right,
                !.reference_frame = <<right, up, forward>>,
                !.up = up]

Turntable(cam, forward, right) ==
    Framed(cam, forward, right, Normalize(Cross(right, forward, Unit)))

\* lines 154-157: free orbit
FreeOrbit(cam) ==
    [cam EXCEPT !.position = VAdd(cam.target,
                                  rotate_vector(cam.orientation, <<0, 0, FNeg(cam.distance)>>)),
                !.up = rotate_vector(cam.orientation, UnitY)]

\* Camera::update_position, lines 101-159
update_position(cam) ==
    IF cam.turntable_mode
    THEN Turntable(cam, Forward(cam),
                   TurntableRight(Forward(cam), cam.world_up, cam.last_right))
    ELSE FreeOrbit(cam)

\* lines 65-71 and 171-175: the right vector of a fresh frame
InitialRight(forward, world_up) ==
    IF FGt(FAbs(Dot(forward, world_up, Unit)), NewPoleAlignment)
    THEN UnitX
    ELSE Normalize(Cross(forward, world_up, Unit))

\* lines 72-94: the struct Camera::new builds
CameraStruct(position, target, distance, orientation, world_up, forward, right) ==
    [position |-> position,
     target |-> target,
     up |-> world_up,
     distance |-> distance,
     orientation |-> orientation,
     world_up |-> UnitZ,
     turntable_mode |-> TRUE,
     reference_frame |-> <<right, Normalize(Cross(right, forward, Unit)), forward>>,
     last_right |-> right,
     initial_position |-> position,
     initial_target |-> target,
     initial_orientation |-> orientation,
     initial_distance |-> distance]

\* lines 49-94: the camera as Camera::new fills it in
CameraFields(position, target) ==
    LET dir      == Normalize(VSub(target, position))
        world_up == UnitZ
    IN  CameraStruct(position, target, Magnitude(VSub(position, target)),
                     look_at(dir, world_up), world_up,
                     VNeg(dir), InitialRight(VNeg(dir), world_up))

\* Camera::new, lines 48-98
CameraNew(position, target) == update_position(CameraFields(position, target))

\* the target left where the pan has taken it
RestoreInitial_KeepTarget(cam) ==
    [cam EXCEPT !.position = cam.initial_position,
                !.orientation = cam.initial_orientation,
                !.distance = cam.initial_distance]

\* lines 164-167
RestoreInitial(cam) ==
    [cam EXCEPT !.position = cam.initial_position,
                !.target = cam.initial_target,
                !.orientation = cam.initial_orientation,
                !.distance = cam.initial_distance]

\* lines 169-177: the camera with last_right reset
ResetRight(cam) ==
    [cam EXCEPT !.last_right = InitialRight(Forward(cam), cam.world_up)]

\* Camera::reset_to_initial, lines 163-181
reset_to_initial(cam) == update_position(ResetRight(RestoreInitial(cam)))

\* 0.01, the pan speed per unit of distance (line 203)
PanSpeedInv == 100

\* lines 203-207: pan_right and pan_up; the amounts are at resolution 1 / Unit
PanVectors(cam, right, up, right_amount, up_amount) ==
    LET pan_speed == FDiv(cam.distance, PanSpeedInv, 1)
    IN  <<VScale(VScale(right, right_amount, Unit), pan_speed, Unit),
          VScale(VScale(up, up_amount, Unit), pan_speed, Unit)>>

\* lines 196-200: the view-aligned right and up vectors
PanFrame(cam, forward, right, right_amount, up_amount) ==
    PanVectors(cam, right, Normalize(Cross(right, forward, Unit)), right_amount, up_amount)

\* lines 193-207: the offsets pan adds
PanOffset(cam, forward, right_amount, up_amount) ==
    PanFrame(cam, forward, Normalize(Cross(forward, cam.world_up, Unit)),
             right_amount, up_amount)

\* lines 210-211
Translated(cam, off) ==
    [cam EXCEPT !.position = VAdd(VAdd(cam.position, off[1]), off[2]),
                !.target = VAdd(VAdd(cam.target, off[1]), off[2])]

\* Camera::pan, lines 190-212
pan(cam, right_amount, up_amount) ==
    Translated(cam, PanOffset(cam, Normalize(VSub(cam.target, cam.position)),
                              right_amount, up_amount))


(***************************************************************************)
(* camera.rs: CameraController                                             *)
(***************************************************************************)
\* CameraController::new(4.0, 0.4), lib_state.rs line 214
speed == 4

sensitivity == (4 * Unit) \div 10

\* lines 293-296
orbit_speed == (15 * Unit) \div 10

zoom_speed == (5 * Unit) \div 100

max_rotation_per_frame == Unit \div 10

\* lines 278-298 (orbit_invert_y is false and is never changed)
ControllerNew ==
    [amount_left |-> 0, amount_right |-> 0, amount_up |-> 0, amount_down |-> 0,
     mouse_pan_x |-> 0, mouse_pan_y |-> 0, is_panning |-> FALSE,
     mouse_delta_x |-> 0, mouse_delta_y |-> 0, is_orbiting |-> FALSE,
     alt_pressed |-> FALSE, scroll |-> 0, orbit_invert_y |-> FALSE,
     reset_camera_pressed |-> FALSE]

\* process_keyboard, lines 301-335
process_keyboard(ctl, key, state) ==
    LET amount == IF state = "Pressed" THEN 1 ELSE 0
    IN  CASE key \in {"KeyW", "ArrowUp"}    -> [ctl EXCEPT !.amount_up = amount]
          [] key \in {"KeyS", "ArrowDown"}  -> [ctl EXCEPT !.amount_down = amount]
          [] key \in {"KeyA", "ArrowLeft"}  -> [ctl EXCEPT !.amount_left = amount]
          [] key \in {"KeyD", "ArrowRight"} -> [ctl EXCEPT !.amount_right = amount]
          [] key = "KeyC" ->
                IF state = "Pressed" THEN [ctl EXCEPT !.reset_camera_pressed = TRUE] ELSE ctl
          [] key \in {"AltLeft", "AltRight"} -> [ctl EXCEPT !.alt_pressed = (state = "Pressed")]
          [] OTHER -> ctl

\* process_mouse, lines 338-355; the deltas in pixels
process_mouse(ctl, mouse_dx, mouse_dy) ==
    LET orbit == IF ctl.is_orbiting
                 THEN [ctl EXCEPT !.mouse_delta_x = mouse_dx,
                                  !.mouse_delta_y = IF ctl.orbit_invert_y
                                                    THEN 0 - mouse_dy ELSE mouse_dy]
                 ELSE ctl
    IN  IF ctl.is_panning
        THEN [orbit EXCEPT !.mouse_pan_x = mouse_dx, !.mouse_pan_y = mouse_dy]
        ELSE orbit

\* a release that leaves the recorded deltas as they are
process_mouse_button_KeepDeltas(ctl, state, button) ==
    CASE button = "Right" -> [ctl EXCEPT !.is_orbiting = (state = "Pressed")]
      [] button = "Middle" -> [ctl EXCEPT !.is_panning = (state = "Pressed")]
      [] OTHER -> ctl

\* process_mouse_button, lines 358-382
process_mouse_button(ctl, state, button) ==
    CASE button = "Right" ->
            IF state = "Pressed" THEN [ctl EXCEPT !.is_orbiting = TRUE]
            ELSE [ctl EXCEPT !.is_orbiting = FALSE, !.mouse_delta_x = 0, !.mouse_delta_y = 0]
      [] button = "Middle" ->
            IF state = "Pressed" THEN [ctl EXCEPT !.is_panning = TRUE]
            ELSE [ctl EXCEPT !.is_panning = FALSE, !.mouse_pan_x = 0, !.mouse_pan_y = 0]
      [] OTHER -> ctl

\* process_scroll, lines 385-391; scroll is kept at resolution 1 / Unit:
\* LineDelta(_, l) gives -l, PixelDelta(y) gives -y * 0.005
process_scroll(ctl, delta) ==
    [ctl EXCEPT !.scroll =
        IF delta.kind = "LineDelta" THEN 0 - delta.amount * Unit
        ELSE 0 - (delta.amount * 5 * Unit) \div 1000]

\* update_camera works on the camera and records in `calls` each call it
\* makes of pan, update_position and reset_to_initial, and each orbit and
\* zoom it applies, with the arguments and the camera before and after
Call(op, args, before, after) ==
    [op |-> op, args |-> args, before |-> before, after |-> after]

\* the state after a call of pan
Panned(st, args, after) ==
    [cam   |-> after,
     calls |-> Append(st.calls, Call("pan", args, st.cam, after))]

\* the state after fields of the camera were set, giving `moved`, and
\* update_position was called
Updated(st, op, args, moved, after) ==
    [cam   |-> after,
     calls |-> st.calls \o <<Call("update_position", <<>>, moved, after),
                             Call(op, args, st.cam, after)>>]

\* lines 398-402; dt in seconds at resolution 1 / Unit
KeyPan(st, ctl, dt) ==
    LET key_pan_right == (ctl.amount_right - ctl.amount_left) * speed * dt
        key_pan_up    == (ctl.amount_up - ctl.amount_down) * speed * dt
    IN  IF key_pan_right # 0 \/ key_pan_up # 0
        THEN Panned(st, <<key_pan_right, key_pan_up>>,
                    pan(st.cam, key_pan_right, key_pan_up))
        ELSE st

\* lines 405-414
MousePan(st, ctl) ==
    IF ctl.is_panning /\ (ctl.mouse_pan_x # 0 \/ ctl.mouse_pan_y # 0)
    THEN LET mouse_pan_speed == RDiv(speed * sensitivity, 10)
             mouse_pan_right == (0 - ctl.mouse_pan_x) * mouse_pan_speed
             mouse_pan_up    == ctl.mouse_pan_y * mouse_pan_speed
         IN  Panned(st, <<mouse_pan_right, mouse_pan_up>>,
                    pan(st.cam, mouse_pan_right, mouse_pan_up))
    ELSE st

\* the yaw without the clamp of line 427
YawDelta_Unclamped(ctl, dt) ==
    LET orbit_multiplier == FMul(FMul(orbit_speed, sensitivity, Unit), dt, Unit)
    IN  ctl.mouse_delta_x * orbit_multiplier

\* lines 423-438: the yaw and the pitch of this frame
YawDelta(ctl, dt) ==
    LET orbit_multiplier == FMul(FMul(orbit_speed, sensitivity, Unit), dt, Unit)
    IN  FClamp(ctl.mouse_delta_x * orbit_multiplier,
               0 - max_rotation_per_frame, max_rotation_per_frame)

PitchDelta(ctl, dt) ==
    LET orbit_multiplier == FMul(FMul(orbit_speed, sensitivity, Unit), dt, Unit)
        pitch_delta == IF ctl.orbit_invert_y
                       THEN ctl.mouse_delta_y * orbit_multiplier
                       ELSE (0 - ctl.mouse_delta_y) * orbit_multiplier
    IN  FClamp(pitch_delta, 0 - max_rotation_per_frame, max_rotation_per_frame)

\* lines 445-459: the orientation after the yaw and the pitch
Rotated(cam, yaw_delta, pitch_delta) ==
    LET yaw_rotation   == from_axis_angle(cam.world_up, yaw_delta)
        right          == cam.last_right
        pitch_rotation == from_axis_angle(Normalize(right), pitch_delta)
    IN  QNormalize(QMul(QMul(yaw_rotation, pitch_rotation), cam.orientation))

\* lines 456-462
Turned(st, args, turned) ==
    Updated(st, "orbit", args, turned, update_position(turned))

\* lines 417-463
Orbit(st, ctl, dt) ==
    IF ctl.is_orbiting /\ (ctl.mouse_delta_x # 0 \/ ctl.mouse_delta_y # 0)
    THEN LET yaw_delta   == YawDelta(ctl, dt)
             pitch_delta == PitchDelta(ctl, dt)
         IN  Turned(st, <<yaw_delta, pitch_delta>>,
                    [st.cam EXCEPT !.orientation = Rotated(st.cam, yaw_delta, pitch_delta)])
    ELSE st

\* the distance scaled and not clamped from below
Zoomed_NoMin(distance, scroll) ==
    FMin(FMul(distance, Unit + FMul(scroll, zoom_speed, Unit), Unit), MAX_ZOOM_DISTANCE)

\* lines 468-471
Zoomed(distance, scroll) ==
    FMin(FMax(FMul(distance, Unit + FMul(scroll, zoom_speed, Unit), Unit),
              MIN_ZOOM_DISTANCE),
         MAX_ZOOM_DISTANCE)

\* lines 471-475
Scaled(st, args, scaled) ==
    Updated(st, "zoom", args, scaled, update_position(scaled))

\* lines 466-476 (scroll itself is cleared in UpdateCamera)
Zoom(st, ctl) ==
    IF ctl.scroll # 0
    THEN Scaled(st, <<ctl.scroll>>,
                [st.cam EXCEPT !.distance = Zoomed(st.cam.distance, ctl.scroll)])
    ELSE st

\* lines 479-482 (the flag itself is cleared in UpdateCamera)
Reset(st, ctl) ==
    IF ctl.reset_camera_pressed
    THEN Updated(st, "reset_to_initial", <<>>,
                 ResetRight(RestoreInitial(st.cam)), reset_to_initial(st.cam))
    ELSE st

\* update_camera with the reset applied first, before pan, orbit and zoom
update_camera_ResetFirst(ctl, cam, dt) ==
    Zoom(Orbit(MousePan(KeyPan(Reset([cam |-> cam, calls |-> <<>>], ctl), ctl, dt), ctl),
               ctl, dt),
         ctl)

\* update_camera, lines 394-483: the camera and the calls made
update_camera(ctl, cam, dt) ==
    Reset(Zoom(Orbit(MousePan(KeyPan([cam |-> cam, calls |-> <<>>], ctl, dt), ctl), ctl, dt),
               ctl),
          ctl)

(***************************************************************************)
(* the camera system: construction, input events and frames                *)
(***************************************************************************)
\* bounds: the frames run and the input events delivered
MaxFrames == 3
MaxEvents == 4

\* the eyes a camera is constructed at, the target being the origin: the
\* viewer's own (lib_state.rs line 209) and one on the y axis
LiveEyes == {<<0, 10 * Pos, 10 * Pos>>, <<0, 10 * Pos, 0>>}

\* the inputs delivered
KeyInputs == {"KeyW", "KeyD", "KeyC"}

ButtonInputs == {"Right", "Middle"}

MouseMoves == {<<20, 0>>, <<0, 20>>, <<0, -20>>, <<2, -2>>}

ScrollInputs == {[kind |-> "LineDelta", amount |-> -200],
                 [kind |-> "LineDelta", amount |-> 1],
                 [kind |-> "LineDelta", amount |-> 20],
                 [kind |-> "LineDelta", amount |-> 40],
                 [kind |-> "PixelDelta", amount |-> 120]}

\* the frame time, 50 ms
Durations == {Unit \div 20}

NoCamera == [position |-> Origin, target |-> Origin, up |-> UnitZ, distance |-> 0,
             orientation |-> <<Unit, 0, 0, 0>>, world_up |-> UnitZ,
             turntable_mode |-> TRUE, reference_frame |-> <<UnitX, UnitY, UnitZ>>,
             last_right |-> UnitX, initial_position |-> Origin,
             initial_target |-> Origin, initial_orientation |-> <<Unit, 0, 0, 0>>,
             initial_distance |-> 0]

VARIABLES
    cam_pc,      \* "args": the camera is not constructed yet; "live": it is
    eye,         \* the position Camera::new is given
    look,        \* the target Camera::new is given
    camera,      \* State::camera
    controller,  \* State::camera_controller
    calls,       \* the calls made on the camera by the last action
    born,        \* the camera as Camera::new returned it
    nframes,     \* frames run
    nevents      \* input events delivered

camVars == <<cam_pc, eye, look, camera, controller, calls, born, nframes, nevents>>

CamIdle ==
    /\ cam_pc = "args"
    /\ camera = NoCamera
    /\ controller = ControllerNew
    /\ calls = <<>>
    /\ born = NoCamera
    /\ nframes = 0
    /\ nevents = 0

\* init_camera_system, lib_state.rs lines 208-214: Camera::new, then
\* update_position once more, and the controller
InitCameraSystem ==
    /\ cam_pc = "args"
    /\ cam_pc' = "live"
    /\ LET fields == CameraFields(eye, look)
           made   == CameraNew(eye, look)
           again  == update_position(made)
       IN  /\ born' = made
           /\ camera' = again
           /\ calls' = <<Call("update_position", <<>>, fields, made),
                         Call("update_position", <<>>, made, again)>>
    /\ controller' = ControllerNew
    /\ UNCHANGED <<eye, look, nframes, nevents>>

Event(ctl) ==
    /\ cam_pc = "live"
    /\ nevents < MaxEvents
    /\ nevents' = nevents + 1
    /\ controller' = ctl
    /\ calls' = <<>>
    /\ UNCHANGED <<cam_pc, eye, look, camera, born, nframes>>

\* WindowEvent::KeyboardInput
ProcessKeyboard ==
    \E key \in KeyInputs, state \in {"Pressed", "Released"} :
        Event(process_keyboard(controller, key, state))

\* DeviceEvent::MouseMotion
ProcessMouse ==
    \E move \in MouseMoves : Event(process_mouse(controller, move[1], move[2]))

\* WindowEvent::MouseInput
ProcessMouseButton ==
    \E button \in ButtonInputs, state \in {"Pressed", "Released"} :
        Event(process_mouse_button(controller, state, button))

\* WindowEvent::MouseWheel
ProcessScroll ==
    \E delta \in ScrollInputs : Event(process_scroll(controller, delta))

\* State::update, lib.rs line 923: one frame
UpdateCamera ==
    /\ cam_pc = "live"
    /\ nframes < MaxFrames
    /\ nframes' = nframes + 1
    /\ \E dt \in Durations :
          LET done == update_camera(controller, camera, dt)
          IN  /\ camera' = done.cam
              /\ calls' = done.calls
    /\ controller' = [controller EXCEPT !.scroll = 0, !.reset_camera_pressed = FALSE]
    /\ UNCHANGED <<cam_pc, eye, look, born, nevents>>

\* Camera::new alone, on any eye and target
EyeCoordinates == {-10 * Pos, 0, 3 * Pos, 10 * Pos}

Targets == {Origin, <<Pos, 2 * Pos, -3 * Pos>>}

New ==
    /\ cam_pc = "args"
    /\ cam_pc' = "live"
    /\ LET fields == CameraFields(eye, look)
           made   == CameraNew(eye, look)
       IN  /\ born' = made
           /\ camera' = made
           /\ calls' = <<Call("update_position", <<>>, fields, made)>>
    /\ UNCHANGED <<eye, look, controller, nframes, nevents>>

NewNext == New

CameraNext ==
    \/ InitCameraSystem
    \/ ProcessKeyboard
    \/ ProcessMouse
    \/ ProcessMouseButton
    \/ ProcessScroll
    \/ UpdateCamera


(***************************************************************************)
(* model_pipe.rs: the pipe mesh builder                                    *)
(***************************************************************************)
\* bounds of the inputs
MaxSegs == 3
MaxSides == 6

\* direction.magnitude() < 1e-6, as 1000000 * magnitude < 1
ZeroLenInv == 1000000


PipeSegment(start, end, color, radius) ==
    [start |-> start, end |-> end, color |-> color, radius |-> radius]

\* the segments a call may be given: along z (the axis test's other branch),
\* along x, in the xy plane, a space diagonal, towards -z, steep but not
\* vertical, and two of zero length; radius 0.1 or 1.0
SegPool ==
    { PipeSegment(Origin, <<0, 0, Pos>>, 1, 10),
      PipeSegment(Origin, <<Pos, 0, 0>>, 2, Pos),
      PipeSegment(<<Pos, 0, 0>>, <<0, Pos, 0>>, 1, 10),
      PipeSegment(Origin, <<Pos, Pos, Pos>>, 2, Pos),
      PipeSegment(<<0, 0, 2 * Pos>>, Origin, 1, Pos),
      PipeSegment(Origin, <<30, 0, Pos>>, 2, 10),
      PipeSegment(Origin, Origin, 1, 10),
      PipeSegment(<<Pos, 0, 0>>, <<Pos, 0, 0>>, 2, Pos) }

PipeVertex(position, color) == [position |-> position, color |-> color]

\* no test for a segment of zero length
ZeroLength_Never(direction) == FALSE

\* the test of line 281
ZeroLength(direction) == FLt(FMul(Magnitude(direction), ZeroLenInv, 1), Pos)

\* lines 276-278 and 286: axis
PipeAxis(segment) == Normalize(VSub(segment.end, segment.start))

\* lines 290-296
Perpendicular(axis) ==
    IF FLt(FAbs(axis[3]), (9 * Unit) \div 10)
    THEN Normalize(Cross(UnitZ, axis, Unit))
    ELSE Normalize(Cross(UnitX, axis, Unit))

\* line 299
Binormal(axis, perpendicular) == Normalize(Cross(axis, perpendicular, Unit))

\* lines 311-320 and 331-340: rim vertex i around `center`
RimVertex(segment, center, perpendicular, binormal, i, sides) ==
    LET angle == RDiv(i * 2 * Pi, sides)
        x     == Cos(angle)
        y     == Sin(angle)
        dir   == VAdd(VScale(perpendicular, x, Unit), VScale(binormal, y, Unit))
    IN  PipeVertex(VAdd(center, VScale(dir, segment.radius, Unit)), segment.color)

\* the vertices without the centre of the top cap
CylinderVertices_NoTopCentre(segment, sides) ==
    LET axis == PipeAxis(segment)
        perpendicular == Perpendicular(axis)
        binormal == Binormal(axis, perpendicular)
    IN  <<PipeVertex(segment.start, segment.color)>>
        \o [i \in 1..sides |->
               RimVertex(segment, segment.start, perpendicular, binormal, i - 1, sides)]
        \o [i \in 1..sides |->
               RimVertex(segment, segment.end, perpendicular, binormal, i - 1, sides)]

\* lines 286-341: the frame, then centre and rim of the bottom cap, then of
\* the top cap
CylinderVertices(segment, sides) ==
    LET axis == PipeAxis(segment)
        perpendicular == Perpendicular(axis)
        binormal == Binormal(axis, perpendicular)
    IN  <<PipeVertex(segment.start, segment.color)>>
        \o [i \in 1..sides |->
               RimVertex(segment, segment.start, perpendicular, binormal, i - 1, sides)]
        \o <<PipeVertex(segment.end, segment.color)>>
        \o [i \in 1..sides |->
               RimVertex(segment, segment.end, perpendicular, binormal, i - 1, sides)]

\* the concatenation of the sequences f[1] .. f[n]
RECURSIVE Flatten(_)
Flatten(f) == IF Len(f) = 0 THEN <<>> ELSE f[1] \o Flatten(Tail(f))

\* the bottom cap without its closing triangle
BottomCapIndices_Open(sides) ==
    Flatten([k \in 1..(sides - 1) |->
        LET i == k - 1
            idx1 == 1 + i
            idx2 == 1 + ((i + 1) % sides)
        IN  <<0, idx2, idx1>>])

\* lines 344-351
BottomCapIndices(sides) ==
    Flatten([k \in 1..sides |->
        LET i == k - 1
            idx1 == 1 + i
            idx2 == 1 + ((i + 1) % sides)
        IN  <<0, idx2, idx1>>])

\* lines 354-362
TopCapIndices(sides) ==
    LET top_center_idx == 1 + sides
    IN  Flatten([k \in 1..sides |->
            LET i == k - 1
                idx1 == top_center_idx + 1 + i
                idx2 == top_center_idx + 1 + ((i + 1) % sides)
            IN  <<top_center_idx, idx1, idx2>>])

\* the second triangle of each quad wound the other way round
SideQuad_Flipped(i, sides) ==
    LET top_center_idx == 1 + sides
        bottom_curr == 1 + i
        bottom_next == 1 + ((i + 1) % sides)
        top_curr == top_center_idx + 1 + i
        top_next == top_center_idx + 1 + ((i + 1) % sides)
    IN  <<bottom_curr, bottom_next, top_curr, top_curr, top_next, bottom_next>>

\* the two triangles of side quad i, lines 366-380
SideQuad(i, sides) ==
    LET top_center_idx == 1 + sides
        bottom_curr == 1 + i
        bottom_next == 1 + ((i + 1) % sides)
        top_curr == top_center_idx + 1 + i
        top_next == top_center_idx + 1 + ((i + 1) % sides)
    IN  <<bottom_curr, bottom_next, top_curr, top_curr, bottom_next, top_next>>

\* the side wall without its last quad
SideIndices_Open(sides) == Flatten([k \in 1..(sides - 1) |-> SideQuad(k - 1, sides)])

\* lines 365-381
SideIndices(sides) == Flatten([k \in 1..sides |-> SideQuad(k - 1, sides)])

\* create_cylinder_for_pipe: (vertices, indices)
create_cylinder_for_pipe(segment, sides) ==
    IF ZeroLength(VSub(segment.end, segment.start))
    THEN [vertices |-> <<>>, indices |-> <<>>]
    ELSE [vertices |-> CylinderVertices(segment, sides),
          indices  |-> BottomCapIndices(sides) \o TopCapIndices(sides) \o SideIndices(sides)]

\* lines 133-135
OffsetIndices(segment_indices, index_offset) ==
    [j \in 1..Len(segment_indices) |-> segment_indices[j] + index_offset]

\* the offset taken before the segment's vertices are appended
NextIndexOffset_Stale(old_vertices, vertices) == Len(old_vertices)

\* line 139: index_offset = vertices.len(), after vertices.extend(...)
NextIndexOffset(old_vertices, vertices) == Len(vertices)

\* the loop of PipeModel::new, lines 121-143, from segment i on; `acc` holds
\* vertices, indices, index_offset and, per segment, what
\* create_cylinder_for_pipe returned for it
RECURSIVE PipeLoop(_, _, _, _)
PipeLoop(pipe_segments, resolution, i, acc) ==
    IF i > Len(pipe_segments) THEN acc
    ELSE LET cyl == create_cylinder_for_pipe(pipe_segments[i], resolution)
             vertices == acc.vertices \o cyl.vertices
         IN  PipeLoop(pipe_segments, resolution, i + 1,
                 [vertices     |-> vertices,
                  indices      |-> acc.indices \o OffsetIndices(cyl.indices, acc.index_offset),
                  index_offset |-> NextIndexOffset(acc.vertices, vertices),
                  parts        |-> Append(acc.parts, cyl)])

EmptyMesh == [vertices |-> <<>>, indices |-> <<>>, index_offset |-> 0, parts |-> <<>>]

\* PipeModel::new: the vertex and index buffers and num_indices
PipeModelNew(pipe_segments, resolution) == PipeLoop(pipe_segments, resolution, 1, EmptyMesh)

VARIABLES
    pipe_pc,        \* "args": PipeModel::new not yet called; "built": it returned
    pipe_segments,  \* its argument pipe_segments
    resolution,     \* its argument resolution
    mesh            \* the buffers it built

pipeVars == <<pipe_pc, pipe_segments, resolution, mesh>>

(***************************************************************************)
(* the viewer: State's models, the render mode and the hot reload cells.   *)
(* An Option is <<>> for None and <<x>> for Some(x); a model is the record *)
(* of its name and of the read of the JSON file it was built from (0: the  *)
(* read at startup, or none)                                               *)
(***************************************************************************)
VARIABLES
    view_pc,      \* "new": State::new returned; "running": the event loop runs
    state,        \* State: render_mode and the models
    RELOAD_FLAG,  \* lib_hot_reload.rs line 18
    RELOAD_DATA,  \* lib_hot_reload.rs line 21: the fetched JSON, an Option
    in_flight,    \* the fetches spawned and not yet finished
    started,      \* the number of fetches spawned so far
    fetched,      \* the payloads the fetches stored in RELOAD_DATA
    applied,      \* the fetches whose payload reached State, in order
    last_call,    \* the load, reload or key the last action handled
    drawn,        \* what the last frame passed to draw_pipes
    mesh_data,    \* the MeshData given to create_model_from_mesh_data
    model         \* the vertex colours of the Model it returned

viewVars == <<view_pc, state, RELOAD_FLAG, RELOAD_DATA, in_flight, started,
              fetched, applied, last_call, drawn, mesh_data, model>>

\* State::new, lib_state.rs lines 86-107: the cube, the grid lines, no other
\* model, RenderMode::default()
StateNew ==
    [render_mode |-> "All",
     line_model |-> <<[name |-> "Grid Lines", fetch |-> 0]>>,
     pipe_model |-> <<>>,
     obj_model |-> [name |-> "cube", fetch |-> 0],
     additional_mesh_models |-> <<>>,
     quad_point_model |-> <<>>,
     polygon_model |-> <<>>]

\* the viewer as State::new returned it, the statics of lib_hot_reload.rs
\* as they are initialized, and no mesh given to create_model_from_mesh_data
NoViewer ==
    /\ view_pc = "new"
    /\ state = StateNew
    /\ RELOAD_FLAG = FALSE
    /\ RELOAD_DATA = <<>>
    /\ in_flight = {}
    /\ started = 0
    /\ fetched = {}
    /\ applied = <<>>
    /\ last_call = [op |-> "none"]
    /\ drawn = [result |-> "none", draw_pipes |-> <<>>]
    /\ mesh_data = [vertices |-> <<>>, indices |-> <<>>, face_colors |-> <<>>]
    /\ model = <<>>

vars == <<pipeVars, camVars, viewVars>>

PipeArgs ==
    /\ pipe_pc = "args"
    /\ pipe_segments \in UNION {[1..n -> SegPool] : n \in 0..MaxSegs}
    /\ resolution \in 0..MaxSides
    /\ mesh = EmptyMesh

PipeNew ==
    /\ pipe_pc = "args"
    /\ pipe_pc' = "built"
    /\ mesh' = PipeModelNew(pipe_segments, resolution)
    /\ UNCHANGED <<pipe_segments, resolution>>
    /\ UNCHANGED <<camVars, viewVars>>

\* the pipe builder alone: the camera is not constructed
PipeInit == PipeArgs /\ CamIdle /\ eye = Origin /\ look = Origin /\ NoViewer

PipeNext == PipeNew

PipeSpec == PipeInit /\ [][PipeNext]_vars

(***************************************************************************)
(* pipe_line.rs: the line mesh builder                                     *)
(***************************************************************************)
\* a vertex of pipe_line.rs, which carries a normal
LineVertex(position, normal, color) ==
    [position |-> position, normal |-> normal, color |-> color]

\* pipe_line.rs lines 129-133
LinePerpendicular(axis) ==
    IF FGt(FAbs(axis[1]), Unit \div 2) \/ FGt(FAbs(axis[2]), Unit \div 2)
    THEN Normalize(<<axis[2], FNeg(axis[1]), 0>>)
    ELSE Normalize(<<0, axis[3], FNeg(axis[2])>>)

\* lines 146-157 and 168-179: rim vertex i around `center`
LineRimVertex(segment, center, normal, perpendicular, binormal, i, sides) ==
    LET angle == RDiv(i * 2 * Pi, sides)
        x     == Cos(angle)
        y     == Sin(angle)
        dir   == VAdd(VScale(perpendicular, x, Unit), VScale(binormal, y, Unit))
    IN  LineVertex(VAdd(center, VScale(dir, segment.radius, Unit)), normal, segment.color)

\* lines 138-179: centre and rim of the bottom cap, then of the top cap
LineCylinderVertices(segment, axis, perpendicular, binormal, sides) ==
    <<LineVertex(segment.start, VNeg(axis), segment.color)>>
    \o [i \in 1..sides |->
           LineRimVertex(segment, segment.start, VNeg(axis), perpendicular, binormal,
                         i - 1, sides)]
    \o <<LineVertex(segment.end, axis, segment.color)>>
    \o [i \in 1..sides |->
           LineRimVertex(segment, segment.end, axis, perpendicular, binormal,
                         i - 1, sides)]

\* lines 182-201: the triangles of the bottom cap, then of the top cap
LineCapIndices(sides) ==
    LET top_center_idx == 1 + sides
    IN  Flatten([k \in 1..sides |->
            LET i == k - 1
                idx1 == 1 + i
                idx2 == 1 + ((i + 1) % sides)
            IN  <<0, idx2, idx1>>])
        \o Flatten([k \in 1..sides |->
            LET i == k - 1
                idx1 == top_center_idx + 1 + i
                idx2 == top_center_idx + 1 + ((i + 1) % sides)
            IN  <<top_center_idx, idx1, idx2>>])

\* lines 203-221: the two triangles of each side quad
LineSideIndices(sides) ==
    LET top_center_idx == 1 + sides
    IN  Flatten([k \in 1..sides |->
            LET i == k - 1
                bottom_curr == 1 + i
                bottom_next == 1 + ((i + 1) % sides)
                top_curr == top_center_idx + 1 + i
                top_next == top_center_idx + 1 + ((i + 1) % sides)
            IN  <<bottom_curr, top_curr, top_next, bottom_curr, top_next, bottom_next>>])

\* create_cylinder_for_line: (vertices, indices)
create_cylinder_for_line(segment, sides) ==
    IF ZeroLength(VSub(segment.end, segment.start))
    THEN [vertices |-> <<>>, indices |-> <<>>]
    ELSE LET axis == PipeAxis(segment)
             perpendicular == LinePerpendicular(axis)
             binormal == Binormal(axis, perpendicular)
         IN  [vertices |-> LineCylinderVertices(segment, axis, perpendicular, binormal, sides),
              indices  |-> LineCapIndices(sides) \o LineSideIndices(sides)]

\* the loop of PipeLineModel::new, lines 71-83, from segment i on: the
\* indices of a segment are raised by index_offset (lines 76-78), then
\* index_offset is set to vertices.len() (line 80), then the segment's
\* vertices are appended (line 81)
RECURSIVE LineLoop(_, _, _, _)
LineLoop(line_segments, sides, i, acc) ==
    IF i > Len(line_segments) THEN acc
    ELSE LET cyl == create_cylinder_for_line(line_segments[i], sides)
         IN  LineLoop(line_segments, sides, i + 1,
                 [vertices     |-> acc.vertices \o cyl.vertices,
                  indices      |-> acc.indices \o OffsetIndices(cyl.indices, acc.index_offset),
                  index_offset |-> Len(acc.vertices),
                  parts        |-> Append(acc.parts, cyl)])

\* PipeLineModel::new: the vertex and index buffers and num_indices
PipeLineModelNew(line_segments, sides) == LineLoop(line_segments, sides, 1, EmptyMesh)

\* the arguments of PipeLineModel::new (a LineSegment has the fields of a
\* PipeSegment); the camera is not constructed
LineInit ==
    /\ pipe_pc = "args"
    /\ pipe_segments \in UNION {[1..n -> SegPool] : n \in 0..MaxSegs}
    /\ resolution \in 0..MaxSides
    /\ mesh = EmptyMesh
    /\ CamIdle /\ eye = Origin /\ look = Origin
    /\ NoViewer

LineNew ==
    /\ pipe_pc = "args"
    /\ pipe_pc' = "built"
    /\ mesh' = PipeLineModelNew(pipe_segments, resolution)
    /\ UNCHANGED <<pipe_segments, resolution>>
    /\ UNCHANGED <<camVars, viewVars>>

LineNext == LineNew

LineSpec == LineInit /\ [][LineNext]_vars

\* PipeSegment::new and the loader take the radius as it is given: segments
\* of radius 0, of negative radius and, for comparison, of radius 1.0 and of
\* zero length
RadiusPool ==
    { PipeSegment(Origin, <<Pos, 0, 0>>, 1, 0),
      PipeSegment(Origin, <<0, 0, Pos>>, 2, 0 - 10),
      PipeSegment(Origin, <<0, Pos, 0>>, 1, Pos),
      PipeSegment(<<Pos, 0, 0>>, <<Pos, 0, 0>>, 2, 0) }

RadiusArgs ==
    /\ pipe_pc = "args"
    /\ pipe_segments \in UNION {[1..n -> RadiusPool] : n \in 0..MaxSegs}
    /\ resolution \in 0..MaxSides
    /\ mesh = EmptyMesh

\* the pipe builder on segments of any radius
RadiusInit == RadiusArgs /\ CamIdle /\ eye = Origin /\ look = Origin /\ NoViewer

RadiusSpec == RadiusInit /\ [][PipeNext]_vars

\* the camera system alone: no pipe is built
NoPipe ==
    /\ pipe_pc = "args"
    /\ pipe_segments = <<>>
    /\ resolution = 0
    /\ mesh = EmptyMesh

\* the viewer's camera before it is constructed
CameraInit ==
    /\ CamIdle
    /\ NoPipe
    /\ NoViewer
    /\ eye \in LiveEyes
    /\ look = Origin

CameraSpec == CameraInit /\ [][CameraNext /\ UNCHANGED <<pipeVars, viewVars>>]_vars

\* eyes closer to the target than MIN_ZOOM_DISTANCE (0.42) and farther from
\* it than MAX_ZOOM_DISTANCE (150)
DistantEyes == {<<0, 30, 30>>, <<0, 120 * Pos, 90 * Pos>>}

\* a camera system whose camera is constructed with such an eye
DistantInit ==
    /\ CamIdle
    /\ NoPipe
    /\ NoViewer
    /\ eye \in DistantEyes
    /\ look = Origin

DistantSpec == DistantInit /\ [][CameraNext /\ UNCHANGED <<pipeVars, viewVars>>]_vars

\* update_camera while the right button is held: the mouse deltas
\* process_mouse recorded, in pixels, and the frame times, 0 to 1 s
OrbitDeltas == {-500, -20, -1, 0, 2, 500}

OrbitDurations == {0, Unit \div 1000, Unit \div 20, Unit}

\* the viewer's camera, the right button held, some motion recorded
OrbitInit ==
    /\ NoPipe
    /\ NoViewer
    /\ cam_pc = "live"
    /\ eye = <<0, 10 * Pos, 10 * Pos>>
    /\ look = Origin
    /\ born = CameraNew(eye, look)
    /\ camera = update_position(born)
    /\ \E dx \in OrbitDeltas, dy \in OrbitDeltas :
          controller = process_mouse(
              process_mouse_button(ControllerNew, "Pressed", "Right"), dx, dy)
    /\ calls = <<>>
    /\ nframes = 0
    /\ nevents = 0

\* one frame of any of these durations
OrbitFrame ==
    /\ cam_pc = "live"
    /\ nframes < MaxFrames
    /\ nframes' = nframes + 1
    /\ \E dt \in OrbitDurations :
          LET done == update_camera(controller, camera, dt)
          IN  /\ camera' = done.cam
              /\ calls' = done.calls
    /\ controller' = [controller EXCEPT !.scroll = 0, !.reset_camera_pressed = FALSE]
    /\ UNCHANGED <<cam_pc, eye, look, born, nevents>>

OrbitNext == OrbitFrame

OrbitSpec == OrbitInit /\ [][OrbitNext /\ UNCHANGED <<pipeVars, viewVars>>]_vars

\* the camera system under mouse buttons, mouse motion and frames only
MouseNext ==
    \/ InitCameraSystem
    \/ ProcessMouse
    \/ ProcessMouseButton
    \/ UpdateCamera

MouseSpec == CameraInit /\ [][MouseNext /\ UNCHANGED <<pipeVars, viewVars>>]_vars

\* the arguments of Camera::new
NewInit ==
    /\ CamIdle
    /\ NoPipe
    /\ NoViewer
    /\ eye \in EyeCoordinates \X EyeCoordinates \X EyeCoordinates
    /\ look \in Targets

NewSpec == NewInit /\ [][NewNext /\ UNCHANGED <<pipeVars, viewVars>>]_vars

(***************************************************************************)
(* properties of the pipe mesh builder                                     *)
(***************************************************************************)
Built == pipe_pc = "built"

Parts == mesh.parts

\* the number of vertices, of indices, emitted for the segments before k
RECURSIVE VertexOffset(_)
VertexOffset(k) == IF k <= 1 THEN 0 ELSE VertexOffset(k - 1) + Len(Parts[k - 1].vertices)

RECURSIVE IndexStart(_)
IndexStart(k) == IF k <= 1 THEN 0 ELSE IndexStart(k - 1) + Len(Parts[k - 1].indices)

\* C1: whatever the segment and sides >= 0, create_cylinder_for_pipe returns
\* either no vertex and no index, or exactly 2*sides+2 vertices and 12*sides
\* indices (4*sides triangles).
C1_AllOrNothing ==
    \A k \in 1..Len(Parts) :
        \/ Len(Parts[k].vertices) = 0 /\ Len(Parts[k].indices) = 0
        \/ Len(Parts[k].vertices) = 2 * resolution + 2 /\ Len(Parts[k].indices) = 3 * (4 * resolution)

\* four sides: one segment skipped, another with 10 vertices and 48 indices
C1_Witness ==
    /\ Built /\ resolution = 4
    /\ \E k \in 1..Len(Parts) : Len(Parts[k].vertices) = 10 /\ Len(Parts[k].indices) = 48
    /\ \E k \in 1..Len(Parts) : Len(Parts[k].vertices) = 0

\* C2: in the mesh PipeModel::new builds, every index emitted for the k-th
\* segment lies in [off_k, off_k + 2*sides+2), off_k the number of vertices
\* emitted for the segments before k; it is smaller than the vertex count and
\* is the index of a vertex of segment k.
C2_IndicesInOwnSegment ==
    Built =>
        /\ Len(mesh.indices) = IndexStart(Len(Parts) + 1)
        /\ Len(mesh.vertices) = VertexOffset(Len(Parts) + 1)
        /\ \A k \in 1..Len(Parts) : \A j \in 1..Len(Parts[k].indices) :
              LET index == mesh.indices[IndexStart(k) + j]
                  off   == VertexOffset(k)
              IN  /\ index >= off
                  /\ index < off + 2 * resolution + 2
                  /\ index < off + Len(Parts[k].vertices)
                  /\ index < Len(mesh.vertices)
                  /\ index - off = Parts[k].indices[j]

\* three segments, the middle one skipped, the last one's indices offset
C2_Witness ==
    /\ Built /\ resolution >= 3 /\ Len(Parts) = 3
    /\ Len(Parts[1].vertices) > 0 /\ Len(Parts[2].vertices) = 0 /\ Len(Parts[3].vertices) > 0
    /\ mesh.indices[IndexStart(3) + 1] = 2 * resolution + 2

\* triangle t of a cylinder, as three local vertex indices
Triangle(cyl, t) == <<cyl.indices[3 * t - 2], cyl.indices[3 * t - 1], cyl.indices[3 * t]>>

NumTriangles(cyl) == Len(cyl.indices) \div 3

Position(cyl, index) == cyl.vertices[index + 1].position

\* the vector from the centre of its cap to vertex `index` (zero for a centre)
Radial(cyl, sides, index) ==
    IF index <= sides THEN VSub(Position(cyl, index), Position(cyl, 0))
    ELSE VSub(Position(cyl, index), Position(cyl, sides + 1))

\* a direction pointing out of the cylinder at triangle t: away from the other
\* cap for a cap triangle (the first 2*sides triangles), radial for a wall one
Outward(cyl, sides, t) ==
    LET tri == Triangle(cyl, t)
    IN  IF t <= sides THEN VSub(Position(cyl, 0), Position(cyl, sides + 1))
        ELSE IF t <= 2 * sides THEN VSub(Position(cyl, sides + 1), Position(cyl, 0))
        ELSE VAdd(Radial(cyl, sides, tri[1]),
                  VAdd(Radial(cyl, sides, tri[2]), Radial(cyl, sides, tri[3])))

\* triangle t is counter-clockwise for a viewer outside the cylinder
CounterClockwise(cyl, sides, t) ==
    LET tri == Triangle(cyl, t)
        a == Position(cyl, tri[1])
        b == Position(cyl, tri[2])
        c == Position(cyl, tri[3])
    IN  FGt(Dot(Cross(VSub(b, a), VSub(c, a), 1), Outward(cyl, sides, t), 1), 0)

DirectedEdges(cyl, t) ==
    LET tri == Triangle(cyl, t)
    IN  {<<tri[1], tri[2]>>, <<tri[2], tri[3]>>, <<tri[3], tri[1]>>}

\* C3: for sides >= 3 every triangle of a segment (bottom cap, top cap and
\* side wall) is counter-clockwise seen from outside the cylinder, and no two
\* triangles traverse a common edge in the same direction.
C3_CounterClockwise ==
    resolution >= 3 =>
        \A k \in 1..Len(Parts) :
            LET cyl == Parts[k]
            IN  /\ \A t \in 1..NumTriangles(cyl) : CounterClockwise(cyl, resolution, t)
                /\ \A t, u \in 1..NumTriangles(cyl) :
                       t # u => DirectedEdges(cyl, t) \cap DirectedEdges(cyl, u) = {}

\* a cylinder along z (frame built from the x axis) and one across it (frame
\* built from the z axis), both with triangles
C3_Witness ==
    /\ Built /\ resolution >= 3
    /\ \E k, l \in 1..Len(Parts) :
          /\ NumTriangles(Parts[k]) = 4 * resolution
          /\ NumTriangles(Parts[l]) = 4 * resolution
          /\ pipe_segments[k].start[3] # pipe_segments[k].end[3]
          /\ pipe_segments[k].start[1] = pipe_segments[k].end[1]
          /\ pipe_segments[l].start[3] = pipe_segments[l].end[3]

\* the three edges of triangle t, without direction
Edges(cyl, t) ==
    LET tri == Triangle(cyl, t)
    IN  {{tri[1], tri[2]}, {tri[2], tri[3]}, {tri[3], tri[1]}}

\* the triangles of the cylinder that have edge e
TrianglesAt(cyl, e) == {u \in 1..NumTriangles(cyl) : e \in Edges(cyl, u)}

\* the vertex indices triangles t in `ts` refer to
Referenced(cyl, ts) == UNION {{Triangle(cyl, t)[1], Triangle(cyl, t)[2], Triangle(cyl, t)[3]} : t \in ts}

\* the indices of the two cap centres
Centres(sides) == {0, sides + 1}

\* C11: for sides >= 3 the mesh of one segment is closed: every edge of
\* every triangle has two distinct ends and belongs to exactly two triangles,
\* and the side-wall triangles (after the 2*sides cap triangles) refer to
\* exactly the rim vertices the cap triangles refer to, which are all the
\* vertices but the two centres.
C11_Watertight ==
    resolution >= 3 =>
        \A k \in 1..Len(Parts) :
            LET cyl  == Parts[k]
                caps == 1..(2 * resolution)
                wall == (2 * resolution + 1)..NumTriangles(cyl)
            IN  Len(cyl.vertices) > 0 =>
                  /\ NumTriangles(cyl) > 2 * resolution
                  /\ \A t \in 1..NumTriangles(cyl) : \A e \in Edges(cyl, t) :
                         Cardinality(e) = 2 /\ Cardinality(TrianglesAt(cyl, e)) = 2
                  /\ Referenced(cyl, wall) = Referenced(cyl, caps) \ Centres(resolution)
                  /\ Referenced(cyl, wall) = (0..(Len(cyl.vertices) - 1)) \ Centres(resolution)

\* two closed cylinders of three sides; rim edge {1, 2} lies in one cap
\* triangle and one wall triangle
C11_Witness ==
    /\ Built /\ resolution = 3 /\ Len(Parts) >= 2
    /\ NumTriangles(Parts[1]) = 12 /\ NumTriangles(Parts[2]) = 12
    /\ Cardinality(TrianglesAt(Parts[1], {1, 2})) = 2

\* C12: a segment with zero or negative radius produces no geometry: the
\* builder emits no vertex and no index for it, as for a segment of zero
\* length.
C12_NoGeometryWithoutRadius ==
    Built =>
        \A k \in 1..Len(Parts) :
            pipe_segments[k].radius <= 0 =>
                Len(Parts[k].vertices) = 0 /\ Len(Parts[k].indices) = 0

Degenerate(segment) == segment.start = segment.end

RECURSIVE WithoutDegenerate(_)
WithoutDegenerate(segments) ==
    IF Len(segments) = 0 THEN <<>>
    ELSE IF Degenerate(Head(segments)) THEN WithoutDegenerate(Tail(segments))
    ELSE <<Head(segments)>> \o WithoutDegenerate(Tail(segments))

\* no segment of the list is skipped for its length
AllNonDegenerate == \A k \in 1..Len(pipe_segments) : ~Degenerate(pipe_segments[k])

\* C17 as stated: PipeModel::new on n non-degenerate segments produces
\* exactly n*(2*sides+2) vertices and an index list of exactly n*4*sides
\* entries.
C17_CountLaw_Stated ==
    (Built /\ AllNonDegenerate) =>
        /\ Len(mesh.vertices) = Len(pipe_segments) * (2 * resolution + 2)
        /\ Len(mesh.indices) = Len(pipe_segments) * 4 * resolution

\* C17, amended: PipeModel::new on n non-degenerate segments produces exactly
\* n*(2*sides+2) vertices and an index list of exactly n*12*sides entries,
\* that is n*4*sides triangles of three indices each.
C17_CountLaw ==
    (Built /\ AllNonDegenerate) =>
        /\ Len(mesh.vertices) = Len(pipe_segments) * (2 * resolution + 2)
        /\ Len(mesh.indices) = Len(pipe_segments) * 12 * resolution
        /\ Len(mesh.indices) = 3 * (Len(pipe_segments) * 4 * resolution)

\* three segments, none skipped, five sides: 36 vertices and 180 indices
C17_Witness ==
    /\ Built /\ AllNonDegenerate
    /\ Len(pipe_segments) = 3 /\ resolution = 5
    /\ Len(mesh.vertices) = 36 /\ Len(mesh.indices) = 180

\* C18: in the mesh PipeLineModel::new builds from two or more non-degenerate
\* segments, every index emitted for the k-th segment is the index of a vertex
\* of the k-th segment: the segment's own index raised by the number of
\* vertices emitted for the segments before k.
C18_LineIndicesInOwnSegment ==
    (Built /\ Len(pipe_segments) >= 2 /\ AllNonDegenerate) =>
        \A k \in 1..Len(Parts) : \A j \in 1..Len(Parts[k].indices) :
            LET index == mesh.indices[IndexStart(k) + j]
                off   == VertexOffset(k)
            IN  /\ index >= off
                /\ index < off + Len(Parts[k].vertices)
                /\ index - off = Parts[k].indices[j]

\* C19: for sides >= 3, in each cylinder of create_cylinder_for_line no
\* side-wall triangle (after the 2*sides cap triangles) traverses an edge in
\* the direction a cap triangle traverses it, and every side-wall triangle is
\* counter-clockwise seen from outside, as the cap triangles are.
C19_LineWallWoundAsCaps ==
    (Built /\ resolution >= 3) =>
        \A k \in 1..Len(Parts) :
            LET cyl == Parts[k]
            IN  Len(cyl.indices) > 0 =>
                  /\ \A t \in 1..(2 * resolution) : CounterClockwise(cyl, resolution, t)
                  /\ \A u \in (2 * resolution + 1)..NumTriangles(cyl) :
                         /\ CounterClockwise(cyl, resolution, u)
                         /\ \A t \in 1..(2 * resolution) :
                                DirectedEdges(cyl, t) \cap DirectedEdges(cyl, u) = {}

\* C7: a segment whose start equals its end contributes no vertex and no
\* index, and the mesh of a list is the mesh of the list without such segments.
C7_DegenerateSkipped ==
    Built =>
        /\ \A k \in 1..Len(Parts) :
              Degenerate(pipe_segments[k]) =>
                  Len(Parts[k].vertices) = 0 /\ Len(Parts[k].indices) = 0
        /\ LET clean == PipeModelNew(WithoutDegenerate(pipe_segments), resolution)
           IN  mesh.vertices = clean.vertices /\ mesh.indices = clean.indices

\* a zero-length segment before and between two segments that have geometry
C7_Witness ==
    /\ Built /\ resolution >= 1 /\ Len(pipe_segments) = 3
    /\ Degenerate(pipe_segments[1]) /\ ~Degenerate(pipe_segments[2])
    /\ Degenerate(pipe_segments[3])
    /\ Len(mesh.vertices) = 2 * resolution + 2

(***************************************************************************)
(* claims about the camera                                                 *)
(***************************************************************************)
\* the calls of `op` made by the last action
CallsOf(op) == {i \in DOMAIN calls : calls[i].op = op}

\* f32 equality of two vectors: no component is NaN
VEq(a, b) == ~VecNaN(a) /\ ~VecNaN(b) /\ a = b

QEq(a, b) == ~QuatNaN(a) /\ ~QuatNaN(b) /\ a = b

\* two vectors equal to within tol in every component
VNear(a, b, tol) ==
    /\ ~VecNaN(a) /\ ~VecNaN(b)
    /\ \A k \in 1..3 : FAbs(a[k] - b[k]) <= tol

InZoomRange(distance) ==
    FGe(distance, MIN_ZOOM_DISTANCE) /\ FGe(MAX_ZOOM_DISTANCE, distance)

\* the factor 1 + scroll * zoom_speed of a zoom
ZoomFactor(scroll) == Unit + FMul(scroll, zoom_speed, Unit)

\* C4: after every zoom update_camera applies, whatever the scroll delta,
\* camera.distance lies in [MIN_ZOOM_DISTANCE, MAX_ZOOM_DISTANCE]; it is the
\* distance the frame ends with unless the frame also resets the camera
C4_ZoomClamped ==
    /\ \A i \in CallsOf("zoom") : InZoomRange(calls[i].after.distance)
    /\ (CallsOf("zoom") # {} /\ CallsOf("reset_to_initial") = {})
          => InZoomRange(camera.distance)

\* a zoom whose factor is zero or negative, clamped to the minimum
C4_Witness ==
    \E i \in CallsOf("zoom") :
        /\ ZoomFactor(calls[i].args[1]) <= 0
        /\ calls[i].before.distance > MIN_ZOOM_DISTANCE
        /\ calls[i].after.distance = MIN_ZOOM_DISTANCE
        /\ camera.distance = MIN_ZOOM_DISTANCE

\* C13: whatever eye the camera was constructed with, a distance within
\* [MIN_ZOOM_DISTANCE, MAX_ZOOM_DISTANCE], as it is after a zoom, is within
\* that range after every later step of the camera system, a frame that
\* orbits, pans or resets the camera included.
C13_DistanceStaysClamped ==
    [][(cam_pc = "live" /\ InZoomRange(camera.distance))
           => InZoomRange(camera'.distance)]_vars

\* C5: reset_to_initial makes position, target, orientation and distance
\* equal to the values they had when Camera::new returned, and resetting
\* once more changes nothing
C5_ResetRestores ==
    \A i \in CallsOf("reset_to_initial") :
        LET after == calls[i].after
        IN  /\ VEq(after.position, born.position)
            /\ VEq(after.target, born.target)
            /\ QEq(after.orientation, born.orientation)
            /\ ~IsNaN(after.distance) /\ after.distance = born.distance
            /\ reset_to_initial(after) = after

\* a reset of a camera that has been orbited and panned or zoomed away
C5_Witness ==
    \E i \in CallsOf("reset_to_initial") :
        LET before == calls[i].before
        IN  /\ before.orientation # born.orientation
            /\ before.position # born.position
            /\ before.target # born.target \/ before.distance # born.distance
            /\ camera = calls[i].after

\* the view direction of Camera::new's arguments is parallel to world_up
ParallelToWorldUp(position, target) ==
    Cross(VSub(target, position), UnitZ, 1) = Origin

\* tolerances of the comparisons: 0.02 in a coordinate, 0.0005 in a
\* component of a direction, 0.0002 in the norm of a quaternion
PositionTolerance == Pos \div 50

DirectionTolerance == Unit \div 2000

NormTolerance == Unit \div 5000

\* C6: for eye # target with a view direction not parallel to world_up,
\* after Camera::new(eye, target) the position is eye, the distance is
\* |eye - target| and the direction from the position to the target is
\* normalize(target - eye)
C6_NewLooksFromEye ==
    (cam_pc = "live" /\ eye # look /\ ~ParallelToWorldUp(eye, look)) =>
        /\ VNear(camera.position, eye, PositionTolerance)
        /\ camera.distance = Magnitude(VSub(eye, look))
        /\ VNear(Normalize(VSub(look, camera.position)),
                 Normalize(VSub(look, eye)), DirectionTolerance)

\* C14: Camera::new with eye # target and a view direction parallel to
\* world_up (the eye straight above or below the target) returns a camera whose
\* orientation, position, up and last_right are all defined (none is NaN).
C14_NewDefinedAtPole ==
    (cam_pc = "live" /\ eye # look /\ ParallelToWorldUp(eye, look)) =>
        /\ ~QuatNaN(camera.orientation)
        /\ ~VecNaN(camera.position)
        /\ ~VecNaN(camera.up)
        /\ ~VecNaN(camera.last_right)

\* an angle within [-max_rotation_per_frame, +max_rotation_per_frame]
InRotationRange(angle) ==
    FGe(angle, 0 - max_rotation_per_frame) /\ FGe(max_rotation_per_frame, angle)

\* the yaw before it is clamped, in the state after the frame (the deltas
\* are not changed by update_camera)
RawYaw(dt) == controller.mouse_delta_x * FMul(FMul(orbit_speed, sensitivity, Unit), dt, Unit)

\* C15: in every update_camera call that orbits, whatever the recorded mouse
\* delta and dt, the yaw and the pitch lie in [-0.1, 0.1] rad, and the
\* orientation after the call is the one before it turned by these two angles.
C15_RotationClamped ==
    \A i \in CallsOf("orbit") :
        LET yaw_delta   == calls[i].args[1]
            pitch_delta == calls[i].args[2]
        IN  /\ InRotationRange(yaw_delta)
            /\ InRotationRange(pitch_delta)
            /\ calls[i].after.orientation = Rotated(calls[i].before, yaw_delta, pitch_delta)

\* a frame of 1 s with a delta of (-500, 2) pixels: a yaw of -300 rad clamped
\* to -0.1, and a pitch of -1.2 rad clamped to -0.1
C15_Witness ==
    /\ controller.mouse_delta_x = -500 /\ controller.mouse_delta_y = 2
    /\ RawYaw(Unit) < 0 - 100 * Unit
    /\ \E i \in CallsOf("orbit") :
          /\ calls[i].args = <<0 - max_rotation_per_frame, 0 - max_rotation_per_frame>>
          /\ calls[i].after.orientation # calls[i].before.orientation

\* while a button is not held, the deltas recorded for its gesture are zero
ReleasedMeansZero ==
    /\ ~controller.is_orbiting =>
           controller.mouse_delta_x = 0 /\ controller.mouse_delta_y = 0
    /\ ~controller.is_panning =>
           controller.mouse_pan_x = 0 /\ controller.mouse_pan_y = 0

\* a step that changes the orientation, the target, is taken with the right,
\* the middle, button held (update_camera leaves both flags as they are)
ChangeNeedsButton ==
    cam_pc = "live" =>
        /\ camera'.orientation # camera.orientation => controller.is_orbiting
        /\ camera'.target # camera.target => controller.is_panning

\* C16: under any interleaving of mouse button, mouse motion and frame
\* events, update_camera changes camera.orientation only in a frame where
\* is_orbiting holds and camera.target only in a frame where is_panning
\* holds, and while a button is not held (before its first press, after a
\* release) the deltas of its gesture are zero, so that motion received then
\* is not applied by any later frame.
C16_GesturesNeedButton == []ReleasedMeansZero /\ [][ChangeNeedsButton]_vars

\* a frame after four input events, the right button held and the middle
\* one not: it turned the camera and left the target where it was
C16_Witness ==
    /\ nframes >= 1 /\ nevents >= 4
    /\ controller.is_orbiting /\ ~controller.is_panning
    /\ CallsOf("orbit") # {} /\ CallsOf("pan") = {}
    /\ camera.orientation # born.orientation
    /\ camera.target = born.target

\* a frame that follows, with no input event in between, a frame that
\* applied the recorded mouse delta (as an orbit or as a pan) leaves
\* orientation, position and target as they are
SecondFrameIdle ==
    (/\ cam_pc = "live"
     /\ CallsOf("orbit") \cup CallsOf("pan") # {}
     /\ nframes' = nframes + 1)
        => /\ camera'.orientation = camera.orientation
           /\ camera'.position = camera.position
           /\ camera'.target = camera.target

\* C20: under mouse buttons, mouse motion and frames, a recorded mouse delta
\* is applied by at most one update_camera call: while the button stays held
\* and no new motion arrives, the next update_camera call leaves
\* camera.orientation, camera.position and camera.target unchanged.
C20_DeltaAppliedOnce == [][SecondFrameIdle]_vars

\* C8: after every orbit step update_camera applies, the orientation is a
\* unit quaternion
C8_UnitOrientation ==
    \A i \in CallsOf("orbit") :
        LET norm == QMagnitude(calls[i].after.orientation)
        IN  ~IsNaN(norm) /\ FAbs(norm - Unit) <= NormTolerance

\* the third orbit step in a row, one that turned the camera
C8_Witness ==
    /\ nframes >= 3
    /\ \E i \in CallsOf("orbit") :
          /\ calls[i].after.orientation # calls[i].before.orientation
          /\ calls[i].before.orientation # born.orientation
          /\ camera.orientation = calls[i].after.orientation

\* the right vector update_position computes before the sign correction
ComputedRight(cam) ==
    Normalize(Cross(cam.reference_frame[3], cam.world_up, Unit))

NearPole(cam) ==
    FGt(FAbs(Dot(cam.reference_frame[3], cam.world_up, Unit)), PoleAlignment)

C10_PanTranslates ==
    \A i \in CallsOf("pan") :
        LET before == calls[i].before
            after  == calls[i].after
            offset == VSub(after.position, before.position)
        IN  /\ VEq(after.target, VAdd(before.target, offset))
            /\ VEq(VSub(after.position, after.target),
                   VSub(before.position, before.target))
            /\ after.distance = before.distance
            /\ after.orientation = before.orientation
            /\ after.up = before.up
            /\ after.last_right = before.last_right



(***************************************************************************)
(* the viewer: keys, frames, the loader and the hot reload                 *)
(***************************************************************************)
MaxFetches == 2

\* The file assets/sample_geometry.json, as a read or a fetch may find it,
\* is of one of four kinds: "garbage", not JSON at all; "mismatch", JSON that
\* is no GeometryData; "pipes", a GeometryData with one pipe set only;
\* "full", one with two meshes, points, pipes and polygons.

\* lib_geometry_manager.rs lines 230-358: the pipes of the line model; the
\* only test is that a line model exists
create_pipes_from_lines(st) ==
    IF st.line_model # <<>>
    THEN [st EXCEPT !.pipe_model = <<[name |-> "Converted Pipe Lines", fetch |-> 0]>>]
    ELSE st

\* lib_geometry_manager.rs lines 8-113: load_geometry_file(path).await? fails
\* on a file that does not read or parse, before State is touched;
\* create_model_from_mesh_data returns Ok for every MeshData
\* (geometry_loader.rs line 284), so the meshes of the file are always
\* assigned; points, pipes and polygons are assigned when the file has them
load_geometries_from_file(st, json) ==
    CASE json.kind = "full" ->
            [result |-> "Ok",
             state |-> [st EXCEPT
                 !.obj_model = [name |-> "mesh 0", fetch |-> json.fetch],
                 !.additional_mesh_models = <<[name |-> "mesh 1", fetch |-> json.fetch]>>,
                 !.quad_point_model = <<[name |-> "points", fetch |-> json.fetch]>>,
                 !.pipe_model = <<[name |-> "pipes", fetch |-> json.fetch]>>,
                 !.polygon_model = <<[name |-> "polygons", fetch |-> json.fetch]>>]]
      [] json.kind = "pipes" ->
            [result |-> "Ok",
             state |-> [st EXCEPT
                 !.pipe_model = <<[name |-> "pipes", fetch |-> json.fetch]>>]]
      [] OTHER -> [result |-> "Err", state |-> st]

\* a reload that assigns the pipes before it finds the JSON unusable
process_geometry_reload_Partial(st, json_string) ==
    [result |-> IF json_string.kind \in {"full", "pipes"} THEN "Ok" ELSE "Err",
     state |-> [st EXCEPT
         !.pipe_model = <<[name |-> "pipes", fetch |-> json_string.fetch]>>]]

\* lib_hot_reload.rs lines 104-202: serde_json::from_str(json_string)? first,
\* then the same assignments
process_geometry_reload(st, json_string) ==
    CASE json_string.kind = "full" ->
            [result |-> "Ok",
             state |-> [st EXCEPT
                 !.obj_model = [name |-> "mesh 0", fetch |-> json_string.fetch],
                 !.additional_mesh_models = <<[name |-> "mesh 1", fetch |-> json_string.fetch]>>,
                 !.quad_point_model = <<[name |-> "points", fetch |-> json_string.fetch]>>,
                 !.pipe_model = <<[name |-> "pipes", fetch |-> json_string.fetch]>>,
                 !.polygon_model = <<[name |-> "polygons", fetch |-> json_string.fetch]>>]]
      [] json_string.kind = "pipes" ->
            [result |-> "Ok",
             state |-> [st EXCEPT
                 !.pipe_model = <<[name |-> "pipes", fetch |-> json_string.fetch]>>]]
      [] OTHER -> [result |-> "Err", state |-> st]

\* lib_hot_reload.rs lines 40-78: take the data and process it, then, if the
\* flag is set, clear it and spawn one fetch
check_reload_flag(st, flag, data) ==
    LET done == IF data # <<>>
                THEN process_geometry_reload(st, data[1])
                ELSE [result |-> "none", state |-> st]
    IN  [state |-> done.state,
         call |-> IF data # <<>>
                  THEN [op |-> "process_geometry_reload", json |-> data[1],
                        result |-> done.result, before |-> st, after |-> done.state]
                  ELSE [op |-> "none"],
         data |-> <<>>,
         flag |-> FALSE,
         spawn |-> flag]

\* render without the creation of the pipes the mode needs
render_NoPipes(st, surface_ok) ==
    IF ~surface_ok
    THEN [state |-> st, drawn |-> [result |-> "Err", draw_pipes |-> <<>>]]
    ELSE [state |-> st,
          drawn |-> [result |-> "Ok",
                     draw_pipes |-> IF st.render_mode \in {"All", "Lines"}
                                    THEN st.pipe_model
                                    ELSE <<>>]]

\* lib_render.rs lines 51-135 and 137-282: get_current_texture()? may fail;
\* then the models the mode needs are created (create_sample_polygon,
\* lib_geometry_manager.rs lines 116-226, for the polygons), and the pipes
\* are drawn in the modes All and Lines when pipe_model is Some
render(st, surface_ok) ==
    LET ready ==
            IF st.render_mode \in {"All", "Lines"}
            THEN IF st.pipe_model = <<>> /\ st.line_model # <<>>
                 THEN create_pipes_from_lines(st)
                 ELSE st
            ELSE IF st.render_mode = "Polygons" /\ st.polygon_model = <<>>
                 THEN [st EXCEPT !.polygon_model = <<[name |-> "Sample Polygon", fetch |-> 0]>>]
                 ELSE st
    IN  IF ~surface_ok
        THEN [state |-> st, drawn |-> [result |-> "Err", draw_pipes |-> <<>>]]
        ELSE [state |-> ready,
              drawn |-> [result |-> "Ok",
                         draw_pipes |-> IF ready.render_mode \in {"All", "Lines"}
                                        THEN ready.pipe_model
                                        ELSE <<>>]]

\* handle_input, lib_input.rs lines 8-55: the render mode keys
handle_input(st, key) ==
    CASE key = "Digit0" -> [st EXCEPT !.render_mode = "All"]
      [] key = "Digit1" -> [st EXCEPT !.render_mode = "Points"]
      [] key = "Digit2" -> create_pipes_from_lines([st EXCEPT !.render_mode = "Lines"])
      [] key = "Digit3" -> [st EXCEPT !.render_mode = "RegularLines"]
      [] key = "Digit4" -> [st EXCEPT !.render_mode = "Meshes"]
      [] key = "Digit5" ->
            [st EXCEPT !.render_mode = "Polygons",
                       !.polygon_model = <<[name |-> "Sample Polygon", fetch |-> 0]>>]

\* run, lib_app.rs lines 120-125: the file is loaded once State::new returned
Run ==
    /\ view_pc = "new"
    /\ view_pc' = "running"
    /\ \E kind \in {"garbage", "mismatch", "pipes", "full"} :
          LET json == [fetch |-> 0, kind |-> kind]
              done == load_geometries_from_file(state, json)
          IN  /\ state' = done.state
              /\ last_call' = [op |-> "load_geometries_from_file", json |-> json,
                               result |-> done.result, before |-> state,
                               after |-> done.state]
    /\ drawn' = [result |-> "none", draw_pipes |-> <<>>]
    /\ UNCHANGED <<RELOAD_FLAG, RELOAD_DATA, in_flight, started, fetched, applied>>
    /\ UNCHANGED <<pipeVars, camVars, mesh_data, model>>

\* WindowEvent::KeyboardInput with one of the render mode keys pressed
Input ==
    /\ view_pc = "running"
    /\ \E key \in {"Digit0", "Digit1", "Digit2", "Digit3", "Digit4", "Digit5"} :
          /\ state' = handle_input(state, key)
          /\ last_call' = [op |-> "handle_input", key |-> key, before |-> state]
    /\ drawn' = [result |-> "none", draw_pipes |-> <<>>]
    /\ UNCHANGED <<view_pc, RELOAD_FLAG, RELOAD_DATA, in_flight, started, fetched, applied>>
    /\ UNCHANGED <<pipeVars, camVars, mesh_data, model>>

\* reload_geometry(), lib_hot_reload.rs lines 26-36, called from JavaScript
ReloadGeometry ==
    /\ view_pc = "running"
    /\ started < MaxFetches
    /\ RELOAD_FLAG' = TRUE
    /\ last_call' = [op |-> "reload_geometry"]
    /\ drawn' = [result |-> "none", draw_pipes |-> <<>>]
    /\ UNCHANGED <<view_pc, state, RELOAD_DATA, in_flight, started, fetched, applied>>
    /\ UNCHANGED <<pipeVars, camVars, mesh_data, model>>

\* fetch_and_reload_geometry, lib_hot_reload.rs lines 206-261, from the
\* response on: a failed request, or text that is not JSON, stores nothing;
\* any other text replaces what RELOAD_DATA holds
FetchDone ==
    /\ \E f \in in_flight :
          /\ in_flight' = in_flight \ {f}
          /\ \E ok \in BOOLEAN, kind \in {"garbage", "mismatch", "pipes", "full"} :
                LET json_string == [fetch |-> f, kind |-> kind]
                IN  IF ok /\ kind # "garbage"
                    THEN /\ RELOAD_DATA' = <<json_string>>
                         /\ fetched' = fetched \cup {json_string}
                    ELSE UNCHANGED <<RELOAD_DATA, fetched>>
    /\ last_call' = [op |-> "fetch_and_reload_geometry"]
    /\ drawn' = [result |-> "none", draw_pipes |-> <<>>]
    /\ UNCHANGED <<view_pc, state, RELOAD_FLAG, started, applied>>
    /\ UNCHANGED <<pipeVars, camVars, mesh_data, model>>

\* WindowEvent::RedrawRequested, lib_app.rs lines 163-184: check_reload_flag,
\* then render (the camera's part of the frame is UpdateCamera)
RedrawRequested ==
    /\ view_pc = "running"
    /\ \E surface_ok \in BOOLEAN :
          LET checked == check_reload_flag(state, RELOAD_FLAG, RELOAD_DATA)
              frame == render(checked.state, surface_ok)
          IN  /\ state' = frame.state
              /\ drawn' = frame.drawn
              /\ last_call' = checked.call
              /\ RELOAD_DATA' = checked.data
              /\ RELOAD_FLAG' = checked.flag
              /\ applied' = IF checked.call.op = "process_geometry_reload"
                               /\ checked.call.result = "Ok"
                            THEN Append(applied, checked.call.json.fetch)
                            ELSE applied
              /\ IF checked.spawn
                 THEN /\ started' = started + 1
                      /\ in_flight' = in_flight \cup {started + 1}
                 ELSE UNCHANGED <<started, in_flight>>
    /\ UNCHANGED <<view_pc, fetched>>
    /\ UNCHANGED <<pipeVars, camVars, mesh_data, model>>

\* the viewer as State::new returned it; no camera input, no pipe builder
ViewerInit ==
    /\ CamIdle /\ eye = Origin /\ look = Origin
    /\ NoPipe
    /\ NoViewer

ViewerNext ==
    \/ Run
    \/ Input
    \/ ReloadGeometry
    \/ FetchDone
    \/ RedrawRequested

ViewerSpec == ViewerInit /\ [][ViewerNext]_vars

(***************************************************************************)
(* properties of the viewer                                                *)
(***************************************************************************)
\* the last action was a press of key 2
PressedDigit2 == last_call.op = "handle_input" /\ last_call.key = "Digit2"

\* C21: a press of key 2 (switching to Lines mode) while a pipe model is
\* present leaves pipe_model as it was
C21_Key2KeepsPipeModel ==
    (PressedDigit2 /\ last_call.before.pipe_model # <<>>)
        => state.pipe_model = last_call.before.pipe_model


\* the last frame was rendered in the mode All or Lines, with a line model
PipeFrame ==
    /\ drawn.result = "Ok"
    /\ state.render_mode \in {"All", "Lines"}
    /\ state.line_model # <<>>

\* such a frame drew the pipes, with the pipe model State holds
PipeFrameDrawsPipes ==
    PipeFrame => (drawn.draw_pipes # <<>> /\ drawn.draw_pipes = state.pipe_model)

\* C22: a frame rendered in the mode All or Lines while a line model exists
\* has pipe_model Some when it draws the pipes, and a pipe_model that is
\* Some is Some after every key, reload, fetch and frame
C22_PipesReadyAndKept ==
    /\ []PipeFrameDrawsPipes
    /\ [][state.pipe_model # <<>> => state'.pipe_model # <<>>]_vars

\* a frame in the mode All found no pipe model and drew the pipes of the lines
C22_Witness ==
    /\ PipeFrame
    /\ state.render_mode = "All"
    /\ drawn.draw_pipes = <<[name |-> "Converted Pipe Lines", fetch |-> 0]>>


(***************************************************************************)
(* properties of the camera controller                                     *)
(***************************************************************************)
\* the step is a frame: State::update ran update_camera
FrameStep == nframes' = nframes + 1

\* the calls of reset_to_initial the step made
ResetsMade == {i \in DOMAIN calls' : calls'[i].op = "reset_to_initial"}

\* the step leaves the camera as Camera::new returned it
EndsAsBorn ==
    /\ VEq(camera'.position, born.position)
    /\ VEq(camera'.target, born.target)
    /\ QEq(camera'.orientation, born.orientation)
    /\ ~IsNaN(camera'.distance) /\ camera'.distance = born.distance

\* a frame with reset_camera_pressed set resets once, last, and clears the
\* flag; a frame without it does not reset
ResetOnFlag ==
    FrameStep =>
        IF controller.reset_camera_pressed
        THEN /\ ResetsMade = {Len(calls')}
             /\ ~controller'.reset_camera_pressed
             /\ EndsAsBorn
        ELSE /\ ResetsMade = {}
             /\ ~controller'.reset_camera_pressed

\* an event sets the flag only as a press of C does, and never clears it
FlagOnPress ==
    (cam_pc = "live" /\ ~FrameStep) =>
        /\ controller.reset_camera_pressed => controller'.reset_camera_pressed
        /\ (controller'.reset_camera_pressed /\ ~controller.reset_camera_pressed)
              => controller' = process_keyboard(controller, "KeyC", "Pressed")

\* a release of C leaves the controller as it is
ReleaseIsIdle == process_keyboard(controller, "KeyC", "Released") = controller

\* C23: a press of C makes the next update_camera call reset_to_initial once,
\* as its last step, and clear reset_camera_pressed, so that the frame ends
\* with the position, target, orientation and distance Camera::new returned
\* whatever else was pending; frames without the flag do not reset, and a
\* release of C changes nothing
C23_OneResetPerPress ==
    /\ []ReleaseIsIdle
    /\ [][ResetOnFlag /\ FlagOnPress]_vars

\* a frame that panned or zoomed a camera away from its first state and
\* then reset it
C23_Witness ==
    /\ CallsOf("reset_to_initial") # {}
    /\ \E i \in CallsOf("pan") \cup CallsOf("zoom") :
          /\ calls[i].after.position # born.position
          /\ ~VecNaN(calls[i].after.position)
    /\ camera.position = born.position
    /\ ~controller.reset_camera_pressed


\* the step delivers the scroll event `delta` while an earlier scroll event
\* is waiting for its frame
ScrollOnPending(delta) ==
    /\ cam_pc = "live"
    /\ ~FrameStep
    /\ controller.scroll # 0
    /\ controller'.scroll # controller.scroll
    /\ controller' = process_scroll(controller, delta)

\* C24: no scroll event is lost: a scroll event that arrives while an earlier
\* one waits for its frame leaves the earlier one to be applied too, so the
\* controller does not hold what the new event alone would have given
C24_NoScrollLost ==
    [][\A delta \in ScrollInputs :
          ScrollOnPending(delta)
              => controller'.scroll # process_scroll(ControllerNew, delta).scroll]_vars


\* C25: pan normalizes no zero-length vector: called on a camera whose
\* position and target are defined, also one that looks along world_up, it
\* leaves position and target defined
C25_PanDefined ==
    \A i \in CallsOf("pan") :
        (~VecNaN(calls[i].before.position) /\ ~VecNaN(calls[i].before.target))
            => (~VecNaN(calls[i].after.position) /\ ~VecNaN(calls[i].after.target))


\* the position the stored target, orientation and distance give
DerivedPosition(cam) ==
    VAdd(cam.target, rotate_vector(cam.orientation, <<0, FNeg(cam.distance), 0>>))

\* |position - target|
TargetDistance(cam) == Magnitude(VSub(cam.position, cam.target))

\* the tolerance of a length: 0.02 and 0.1 % of it, what an orientation whose
\* norm is off by NormTolerance makes of a rotated vector
LengthTolerance(length) == PositionTolerance + length \div 1000

\* C26: in turntable mode, once the camera is constructed and after every
\* frame, position is target + rotate(orientation, (0, -distance, 0)), to
\* within the position tolerance, and |position - target| is distance, to
\* within the tolerance of a length
C26_PositionConsistent ==
    (cam_pc = "live" /\ camera.turntable_mode) =>
        /\ VNear(camera.position, DerivedPosition(camera), PositionTolerance)
        /\ ~IsNaN(TargetDistance(camera))
        /\ FAbs(TargetDistance(camera) - camera.distance)
              <= LengthTolerance(camera.distance)


(***************************************************************************)
(* properties of the loader and of the hot reload                          *)
(***************************************************************************)
\* the last action called load_geometries_from_file or
\* process_geometry_reload
Loaded == last_call.op \in {"load_geometries_from_file", "process_geometry_reload"}

\* the models of a State
Models(st) ==
    <<st.obj_model, st.additional_mesh_models, st.quad_point_model,
      st.pipe_model, st.polygon_model>>

\* C27: a load or a reload that returned an error replaced none of
\* obj_model, additional_mesh_models, quad_point_model, pipe_model and
\* polygon_model
C27_ErrorKeepsModels ==
    (Loaded /\ last_call.result = "Err")
        => Models(last_call.after) = Models(last_call.before)

\* a reload failed on a State that held the models of an earlier file
C27_Witness ==
    /\ last_call.op = "process_geometry_reload"
    /\ last_call.result = "Err"
    /\ last_call.before.obj_model.name = "mesh 0"
    /\ last_call.before.pipe_model # <<>>
    /\ state.obj_model = last_call.before.obj_model


\* no reload is pending: the flag is clear, every fetch has finished and a
\* frame has taken what the last one stored
Quiet == ~RELOAD_FLAG /\ in_flight = {} /\ RELOAD_DATA = <<>>

\* the payload of fetch f reached State
Applied(f) == \E i \in DOMAIN applied : applied[i] = f

\* C28: the geometry a fetch stored, if it parses, is applied to State by
\* the time no reload is pending any more, and no payload is applied twice
C28_FetchedIsApplied ==
    /\ Quiet => \A json \in fetched :
                    json.kind \in {"pipes", "full"} => Applied(json.fetch)
    /\ \A i, j \in DOMAIN applied : applied[i] = applied[j] => i = j


\* the fetch started last stored a payload that parses
LatestFetched ==
    \E json \in fetched : json.fetch = started /\ json.kind \in {"pipes", "full"}

\* C29: the payload of an older fetch is never applied after that of a newer
\* one, and when no reload is pending any more the payload applied last is
\* that of the fetch started last
C29_NewestWins ==
    /\ \A i, j \in DOMAIN applied : i < j => applied[i] < applied[j]
    /\ (Quiet /\ LatestFetched) => (applied # <<>> /\ applied[Len(applied)] = started)


(***************************************************************************)
(* geometry_loader.rs: the vertex colours of a mesh                        *)
(***************************************************************************)
MaxFaces == 3

RECURSIVE FaceColoured(_, _, _, _)

\* the colours of the vertices once the first `done` face colours are
\* applied (geometry_loader.rs lines 243-256); indices count from 0
FaceColoured(colors, md, face_colors, done) ==
    IF done = 0 THEN colors
    ELSE LET before   == FaceColoured(colors, md, face_colors, done - 1)
             idx_base == (done - 1) * 3
             corners  == IF idx_base + 2 < Len(md.indices)
                         THEN {md.indices[idx_base + k] : k \in 1..3}
                         ELSE {}
         IN  [v \in DOMAIN before |->
                 IF (v - 1) \in corners THEN face_colors[done] ELSE before[v]]

\* create_model_from_mesh_data, geometry_loader.rs lines 211-285: the colour
\* of every vertex of the vertex buffer; a vertex without colour is grey
create_model_from_mesh_data(md) ==
    LET vertices == [v \in DOMAIN md.vertices |->
                        IF md.vertices[v] = <<>> THEN "grey" ELSE md.vertices[v][1]]
    IN  IF md.face_colors # <<>>
           /\ Len(md.face_colors[1]) * 3 <= Len(md.indices) \div 3
        THEN FaceColoured(vertices, md, md.face_colors[1], Len(md.face_colors[1]))
        ELSE vertices

\* a MeshData of three or four vertices, up to MaxFaces triangles out of
\* three, one of them with an index past the vertices, and no face colours or up to
\* MaxFaces + 1 of them; no mesh is built yet
MeshInit ==
    /\ CamIdle /\ eye = Origin /\ look = Origin
    /\ NoPipe
    /\ view_pc = "new"
    /\ state = StateNew
    /\ RELOAD_FLAG = FALSE
    /\ RELOAD_DATA = <<>>
    /\ in_flight = {}
    /\ started = 0
    /\ fetched = {}
    /\ applied = <<>>
    /\ last_call = [op |-> "none"]
    /\ drawn = [result |-> "none", draw_pipes |-> <<>>]
    /\ model = <<>>
    /\ \E n \in 3..4, faces \in 0..MaxFaces :
          \E vertices \in [1..n -> {<<>>, <<"white">>}],
             triangles \in [1..faces -> {<<0, 1, 2>>, <<2, 1, 3>>, <<0, 2, 4>>}],
             face_colors \in {<<>>} \cup
                 {<<colors>> : colors \in UNION {[1..k -> {"red", "blue"}] :
                                                     k \in 0..(MaxFaces + 1)}} :
              mesh_data = [vertices |-> vertices,
                           indices |-> [i \in 1..(3 * faces) |->
                                           triangles[(i + 2) \div 3][((i - 1) % 3) + 1]],
                           face_colors |-> face_colors]

\* the call of create_model_from_mesh_data by the loader
CreateModel ==
    /\ model = <<>>
    /\ model' = create_model_from_mesh_data(mesh_data)
    /\ UNCHANGED <<view_pc, state, RELOAD_FLAG, RELOAD_DATA, in_flight, started,
                   fetched, applied, last_call, drawn, mesh_data>>
    /\ UNCHANGED <<pipeVars, camVars>>

MeshSpec == MeshInit /\ [][CreateModel]_vars

\* the number of triangles of the MeshData
NumFaces == Len(mesh_data.indices) \div 3

\* the faces that have vertex v (counted from 0) as a corner
FacesAt(v) ==
    {f \in 1..NumFaces : \E k \in 1..3 : mesh_data.indices[(f - 1) * 3 + k] = v}

\* the last of a set of faces
LastFace(faces) == CHOOSE f \in faces : \A g \in faces : g <= f

\* C30: with one face colour per triangle, every vertex that is a corner of
\* a face has the colour of the last face it is a corner of
C30_FaceColorsApplied ==
    (model # <<>> /\ mesh_data.face_colors # <<>>
        /\ Len(mesh_data.face_colors[1]) = NumFaces)
        => \A v \in DOMAIN model :
              FacesAt(v - 1) # {}
                  => model[v] = mesh_data.face_colors[1][LastFace(FacesAt(v - 1))]

=============================================================================
